---- MODULE Spec2Model ----
(***************************************************************************)
(* Model of watchdog.py: the SSE listener of the WBOR API watchdog.  One   *)
(* coroutine (listen_to_sse) subscribes to the event stream, and for each  *)
(* line carrying the update marker fetches the latest spin                 *)
(* (fetch_latest_spin) and publishes it (send_to_rabbitmq).  The network,  *)
(* the API and the broker are the environment: every await resolves to one *)
(* of the outcomes the libraries can produce, chosen nondeterministically. *)
(***************************************************************************)
EXTENDS Integers, Sequences, FiniteSets, TLC

\* ------------------------------------------------------------------ bounds
\* Longest stream line the environment delivers, in bytes.
MaxLineLen == 3
\* Number of marker lines (signals) the environment delivers over the whole run.
MaxSignals == 2

\* -------------------------------------------------------- program constants
\* asyncio.sleep(5): the reconnect delay.
SleepDelay == 5
\* The status both GET requests compare against.
HTTP_OK == 200

\* ------------------------------------------------------------ stream lines
\* A line of response.content is a sequence of bytes.  The alphabet is cut
\* down to the bytes of "S", "U", " " and one byte that is invalid UTF-8.
BadByte == 255
Bytes == {83, 85, 32, BadByte}
Lines == UNION {[1..n -> Bytes] : n \in 0..MaxLineLen}

\* The marker "Spin outdated - Update needed.", shortened to the word "SU".
MARKER == <<"S", "U">>

\* bytes.decode("utf-8") of one byte of the alphabet.
DecodeByte(b) == CASE b = 83 -> "S" [] b = 85 -> "U" [] b = 32 -> " " [] OTHER -> "?"

\* line.decode("utf-8") raises UnicodeDecodeError on an invalid byte.
CanDecode(line) == \A i \in 1..Len(line) : line[i] # BadByte

Decode(line) == [i \in 1..Len(line) |-> DecodeByte(line[i])]

RECURSIVE Strip(_)
\* str.strip(): drop leading and trailing whitespace.
Strip(s) ==
    IF s = <<>> THEN s
    ELSE IF Head(s) = " " THEN Strip(Tail(s))
    ELSE IF s[Len(s)] = " " THEN Strip(SubSeq(s, 1, Len(s) - 1))
    ELSE s

\* needle in haystack, for strings.
Contains(needle, s) ==
    \E i \in 1..(Len(s) - Len(needle) + 1) :
        SubSeq(s, i, i + Len(needle) - 1) = needle

ContainsMarkerExactly(decoded_line) == decoded_line = MARKER

\* "Spin outdated - Update needed." in decoded_line
ContainsMarker(decoded_line) == Contains(MARKER, decoded_line)

\* ------------------------------------------------------------- JSON values
\* A JSON value: null, or an object given as its ordered (key, value) pairs.
None == [t |-> "null", v |-> <<>>]
Obj(pairs) == [t |-> "object", v |-> pairs]
EmptyObj == Obj(<<>>)
SpinA == Obj(<<<<"artist", "A">>, <<"song", "B">>>>)
SpinB == Obj(<<<<"artist", "C">>, <<"song", "D">>>>)
SpinValues == {None, EmptyObj, SpinA, SpinB}

\* Python truth value of a JSON value: None and {} are false.
Truthy(x) == x.t = "object" /\ x.v # <<>>

\* Bodies of the response of SPIN_GET_URL: a JSON object (its members as
\* (key, value) pairs), a JSON document that is no object, or no JSON at all.
NoBody == [kind |-> "none", members |-> <<>>]
ObjectBody(members) == [kind |-> "object", members |-> members]
Bodies ==
    {ObjectBody(<<>>), ObjectBody(<<<<"spin-1", SpinA>>>>),
     ObjectBody(<<<<"spin-0", SpinA>>, <<"spin-1", SpinB>>>>),
     [kind |-> "array", members |-> <<>>],
     [kind |-> "not_json", members |-> <<>>]}
    \cup {ObjectBody(<<<<"spin-0", x>>>>) : x \in SpinValues}

\* dict.get(key): the value of the member, None when the key is missing.
DictGet(members, key) ==
    IF \E i \in 1..Len(members) : members[i][1] = key
    THEN members[CHOOSE i \in 1..Len(members) : members[i][1] = key][2]
    ELSE None

Statuses == {HTTP_OK, 204, 500}

\* ---------------------------------------------------------------- exceptions
\* The classes of the exceptions the awaited calls raise, with their bases
\* (aiohttp, aio_pika, json and the builtins).  Every one is an Exception.
Bases(e) ==
    CASE e = "ClientError"         -> {"ClientError", "Exception"}
      [] e = "ServerTimeoutError"  -> {"ServerTimeoutError", "ClientError", "TimeoutError", "Exception"}
      [] e = "TimeoutError"        -> {"TimeoutError", "Exception"}
      [] e = "JSONDecodeError"     -> {"JSONDecodeError", "ValueError", "Exception"}
      [] e = "UnicodeDecodeError"  -> {"UnicodeDecodeError", "ValueError", "Exception"}
      [] e = "AMQPConnectionError" -> {"AMQPConnectionError", "AMQPError", "Exception"}
      [] e = "ChannelClosed"       -> {"ChannelClosed", "AMQPError", "Exception"}
      [] e = "AMQPError"           -> {"AMQPError", "Exception"}
      [] e = "AttributeError"      -> {"AttributeError", "Exception"}
      [] e = "RuntimeError"        -> {"RuntimeError", "Exception"}
      [] OTHER                     -> {}

\* except (classes) as e: matches an instance of any listed class.
Matches(classes, e) == classes \cap Bases(e) # {}

\* What the awaits of each call can raise.
HttpExcs == {"ClientError", "ServerTimeoutError", "TimeoutError", "RuntimeError"}
BrokerExcs == {"AMQPConnectionError", "ChannelClosed", "AMQPError", "TimeoutError", "RuntimeError"}

\* ------------------------------------------------------- fetch_latest_spin
Return(x, logs) == [raised |-> "none", ret |-> x, logs |-> logs]
Raise(e) == [raised |-> e, ret |-> None, logs |-> {}]

fetch_latest_spin_any_2xx(netExc, status, body) ==
    IF netExc # "none" THEN Raise(netExc)
    ELSE IF status \in 200..299 THEN
        IF body.kind = "not_json" THEN Raise("JSONDecodeError")
        ELSE IF body.kind # "object" THEN Raise("AttributeError")
        ELSE LET latest_spin == DictGet(body.members, "spin-0") IN
             IF Truthy(latest_spin)
             THEN Return(latest_spin, {"info:Latest spin"})
             ELSE Return(None, {"warning:No latest spin found in response."})
    ELSE Return(None, {"critical:Failed to fetch spin data"})

\* fetch_latest_spin(): netExc is what session.get raises ("none": a response
\* with the given status and body arrives).  The result is the value returned
\* or the exception raised, with the messages logged.
fetch_latest_spin(netExc, status, body) ==
    IF netExc # "none" THEN Raise(netExc)
    ELSE IF status = HTTP_OK THEN
        \* response.json() fails on a body that is no JSON; spins_data.get
        \* fails on a JSON document that is no object.
        IF body.kind = "not_json" THEN Raise("JSONDecodeError")
        ELSE IF body.kind # "object" THEN Raise("AttributeError")
        ELSE LET latest_spin == DictGet(body.members, "spin-0") IN
             IF Truthy(latest_spin)
             THEN Return(latest_spin, {"info:Latest spin"})
             ELSE Return(None, {"warning:No latest spin found in response."})
    ELSE Return(None, {"critical:Failed to fetch spin data"})

\* --------------------------------------------------------- send_to_rabbitmq
RECURSIVE DumpPairs(_)
DumpPairs(pairs) ==
    IF pairs = <<>> THEN <<>>
    ELSE <<"\"" \o pairs[1][1] \o "\"", ":", "\"" \o pairs[1][2] \o "\"">>
         \o (IF Len(pairs) > 1 THEN <<",">> ELSE <<>>)
         \o DumpPairs(Tail(pairs))

\* json.dumps(x).encode("utf-8"), as the sequence of the tokens of the text.
JsonDumps(x) ==
    IF x.t = "null" THEN <<"null">>
    ELSE <<"{">> \o DumpPairs(x.v) \o <<"}">>

\* The steps of send_to_rabbitmq that await the broker, in program order.
PubStages == <<"connect_robust", "channel", "declare_exchange", "publish", "close">>
StageNo(stage) == IF stage = "none" THEN Len(PubStages) + 1
                  ELSE CHOOSE i \in 1..Len(PubStages) : PubStages[i] = stage

\* except (AMQPConnectionError, ChannelClosed) of send_to_rabbitmq.
SendCatches == {"AMQPConnectionError", "ChannelClosed"}

send_to_rabbitmq_queue_as_key(data, failStage, failExc) ==
    LET n == StageNo(failStage)
        caught == Matches(SendCatches, failExc)
    IN  [raised    |-> IF failStage = "none" \/ caught THEN "none" ELSE failExc,
         logs      |-> (IF n > StageNo("publish")
                        THEN {"info:Published spin data to RabbitMQ"} ELSE {})
                       \cup (IF failStage # "none" /\ caught
                             THEN {"critical:Error publishing to RabbitMQ"} ELSE {}),
         opened    |-> n > StageNo("connect_robust"),
         closed    |-> failStage = "none",
         delivered |-> IF n > StageNo("publish")
                       THEN <<[body |-> JsonDumps(data),
                               exchange |-> "RABBITMQ_EXCHANGE",
                               routing_key |-> "RABBITMQ_QUEUE"]>>
                       ELSE <<>>]

\* send_to_rabbitmq(spin_data) when the step failStage raises failExc
\* ("none": no step fails).  opened: connect_robust returned a connection;
\* closed: connection.close() returned; delivered: the messages the exchange
\* accepted.
send_to_rabbitmq(data, failStage, failExc) ==
    LET n == StageNo(failStage)
        caught == Matches(SendCatches, failExc)
    IN  [raised    |-> IF failStage = "none" \/ caught THEN "none" ELSE failExc,
         logs      |-> (IF n > StageNo("publish")
                        THEN {"info:Published spin data to RabbitMQ"} ELSE {})
                       \cup (IF failStage # "none" /\ caught
                             THEN {"critical:Error publishing to RabbitMQ"} ELSE {}),
         opened    |-> n > StageNo("connect_robust"),
         closed    |-> failStage = "none",
         delivered |-> IF n > StageNo("publish")
                       THEN <<[body |-> JsonDumps(data),
                               exchange |-> "RABBITMQ_EXCHANGE",
                               routing_key |-> "RABBITMQ_ROUTING_KEY"]>>
                       ELSE <<>>]

\* ------------------------------------------------------------------- state
VARIABLES
    pc,         \* where listen_to_sse is: "connect" (top of the loop, GET of the
                \* stream), "sleep_non200" (line 114), "streaming" (waiting for
                \* the next line), "fetching", "publishing", "sleep" (line 152),
                \* "terminated" (listen_to_sse raised to main)
    subOpen,    \* the stream session and response are open
    unit,       \* the stream line being handled (the last one read): whether
                \* it is empty, decodes, and carries the marker
    trace,      \* the calls made for that line, in order
    unitLog,    \* the messages logged while handling that line
    unitExc,    \* the exception raised to the listener while handling it
    resp,       \* the response fetch_latest_spin got for it
    spin_data,  \* the value fetch_latest_spin returned for it
    pubFail,    \* the step of send_to_rabbitmq that failed for it, and how
    leaked,     \* broker connections opened and never closed
    nSignals,   \* marker lines detected so far
    nRecords,   \* fetches that returned a record so far
    nPublish,   \* calls of send_to_rabbitmq so far
    published,  \* the messages the exchange accepted, in order
    exited,     \* a session or connection attempt has ended and no new
                \* connection attempt has been made since
    delay,      \* time slept since that end
    exitFrom,   \* what ended it: "connect", "status", "read", "unit", "end"
    exitLog,    \* the message the listener logged for it
    inflight,   \* the awaited operations that have started and not finished
    nDone,      \* signals whose handling has ended (returned or raised)
    pubOrder,   \* the signals send_to_rabbitmq was called for, in call order
    connStatus, \* the status of the response to the latest stream request
                \* (0: it got no response)
    nOpened,    \* calls of send_to_rabbitmq whose connect_robust returned a
                \* connection
    prevPub     \* the record of the latest call of send_to_rabbitmq that
                \* succeeded for an earlier line of this session (None: there
                \* is none)

vars == <<pc, subOpen, unit, trace, unitLog, unitExc, resp, spin_data, pubFail,
          leaked, nSignals, nRecords, nPublish, published,
          exited, delay, exitFrom, exitLog, inflight, nDone, pubOrder,
          connStatus, nOpened, prevPub>>

unitVars == <<unit, trace, unitLog, unitExc, resp, spin_data, pubFail>>
sessionVars == <<subOpen, exited, delay, exitFrom, exitLog>>
counters == <<nSignals, nRecords, nPublish>>

\* What the state keeps of a line read from the stream.
IsSignal(l) == CanDecode(l) /\ Contains(MARKER, Decode(l))
NoUnit == [read |-> FALSE, empty |-> FALSE, decodable |-> FALSE, signal |-> FALSE]
UnitOf(l) == [read |-> TRUE, empty |-> l = <<>>, decodable |-> CanDecode(l),
              signal |-> IsSignal(l)]

NoResp == [status |-> 0, body |-> NoBody]
NoFail == [stage |-> "none", exc |-> "none"]

Init ==
    /\ pc = "connect"
    /\ subOpen = FALSE
    /\ unit = NoUnit
    /\ trace = <<>>
    /\ unitLog = {}
    /\ unitExc = "none"
    /\ resp = NoResp
    /\ spin_data = None
    /\ pubFail = NoFail
    /\ leaked = 0
    /\ nSignals = 0
    /\ nRecords = 0
    /\ nPublish = 0
    /\ published = <<>>
    /\ exited = FALSE
    /\ delay = 0
    /\ exitFrom = "none"
    /\ exitLog = "none"
    /\ inflight = {"connect"}
    /\ nDone = 0
    /\ pubOrder = <<>>
    /\ connStatus = 0
    /\ nOpened = 0
    /\ prevPub = None

\* ------------------------------------------------- listen_to_sse: handlers
OuterCatchAllNarrow == {"OSError"}

\* except Exception of listen_to_sse.
OuterCatchAll == {"Exception"}

OuterHandlerReraise(e) ==
    IF Matches({"ClientError"}, e) THEN "error:SSE connection error"
    ELSE IF Matches({"AMQPError", "TimeoutError"}, e) THEN "propagate"
    ELSE IF Matches(OuterCatchAll, e) THEN "error:Unexpected exception"
    ELSE "propagate"

\* The except clauses around the session, tried in order: the message logged,
\* or "propagate" when no clause matches.
OuterHandler(e) ==
    IF Matches({"ClientError"}, e) THEN "error:SSE connection error"
    ELSE IF Matches({"AMQPError", "TimeoutError"}, e)
         THEN "critical:Unexpected error in SSE listener"
    ELSE IF Matches(OuterCatchAll, e) THEN "error:Unexpected exception"
    ELSE "propagate"

\* except (aiohttp.ClientError, json.JSONDecodeError) around the handling of
\* one line.
InnerCatches == {"ClientError", "JSONDecodeError"}

\* An exception leaves the session: both async with blocks exit, the matching
\* outer clause logs it and control goes to the sleep of line 152.  When no
\* clause matches, the exception leaves listen_to_sse.
ExitSession(from, e) ==
    /\ subOpen' = FALSE
    /\ exited' = TRUE
    /\ delay' = 0
    /\ exitFrom' = from
    /\ exitLog' = OuterHandler(e)
    /\ pc' = IF OuterHandler(e) = "propagate" THEN "terminated" ELSE "sleep"

\* The handling of the line ends without an exception: next line.
ContinueStreaming(logs) ==
    /\ pc' = "streaming"
    /\ unitLog' = logs
    /\ unitExc' = "none"
    /\ UNCHANGED sessionVars

\* An exception is raised inside the try of line 124.
RaiseInUnit(e, logs) ==
    /\ unitExc' = e
    /\ IF Matches(InnerCatches, e)
       THEN /\ pc' = "streaming"
            /\ unitLog' = logs \cup {"exception:Error processing SSE message"}
            /\ UNCHANGED sessionVars
       ELSE /\ unitLog' = logs
            /\ ExitSession("unit", e)

ShouldPublishAlways(data) == TRUE

ShouldPublishDedup(data) ==
    /\ Truthy(data)
    /\ (published = <<>> \/ published[Len(published)].body # JsonDumps(data))

\* if spin_data:
ShouldPublish(data) == Truthy(data)

SubOpenAfterContinueHeld == TRUE

\* The continue of line 115 leaves both async with blocks: the response is
\* released and the session closed.
SubOpenAfterContinue == FALSE

AfterNon200SleepFallThrough == "sleep"

\* continue (line 115): back to the top of the loop.
AfterNon200Sleep == "connect"

AfterPublishRetry(r) == IF r.raised = "none" /\ r.closed THEN "streaming" ELSE "publishing"

\* Where the listener goes when send_to_rabbitmq returns.
AfterPublish(r) == "streaming"

StreamStatusOKAny2xx(status) == status \in 200..299

\* not (response.status != 200), line 109.
StreamStatusOK(status) == status = HTTP_OK

AfterConnectFetch == "fetching"

\* After a 200 response the listener goes straight to the async for over the
\* lines of the stream (lines 117-121).
AfterConnect == "streaming"

AfterSignalNotAwaited == "streaming"

\* spin_data = await fetch_latest_spin() (line 133): the listener waits for
\* the fetch it has started.
AfterSignal == "fetching"

\* The operation the listener awaits at each place.
AwaitedAt(p) ==
    CASE p = "connect"      -> {"connect"}
      [] p = "streaming"    -> {"read"}
      [] p = "fetching"     -> {"fetch"}
      [] p = "publishing"   -> {"publish"}
      [] p = "sleep"        -> {"sleep"}
      [] p = "sleep_non200" -> {"sleep"}
      [] OTHER              -> {}

\* The awaited operation op has finished and the listener runs to its next
\* await, starting the operations in started on the way.
Resume(op, started) ==
    inflight' = (inflight \ {op}) \cup started \cup AwaitedAt(pc')

\* ------------------------------------------------- listen_to_sse: the steps
\* Top of the loop: open the session and GET the stream (lines 103-119).
Connect ==
    /\ pc = "connect"
    /\ unit' = NoUnit
    /\ trace' = <<>>
    /\ unitLog' = {}
    /\ unitExc' = "none"
    /\ resp' = NoResp
    /\ spin_data' = None
    /\ pubFail' = NoFail
    /\ UNCHANGED <<leaked, counters, published>>
    /\ \E e \in HttpExcs \cup {"none"}, status \in Statuses :
         IF e # "none"
         THEN /\ ExitSession("connect", e)
              /\ connStatus' = 0
         ELSE IF ~StreamStatusOK(status)
         THEN /\ connStatus' = status
              /\ pc' = "sleep_non200"
              /\ subOpen' = TRUE
              /\ exited' = TRUE
              /\ delay' = 0
              /\ exitFrom' = "status"
              /\ exitLog' = "error:Failed to connect to SSE stream"
         ELSE /\ connStatus' = status
              /\ pc' = AfterConnect
              /\ subOpen' = TRUE
              /\ exited' = FALSE
              /\ delay' = 0
              /\ exitFrom' = "none"
              /\ exitLog' = "none"
    /\ Resume("connect", {})
    /\ UNCHANGED nOpened
    /\ prevPub' = None
    /\ UNCHANGED <<nDone, pubOrder>>

\* await asyncio.sleep(5); continue (lines 114-115): the sleep runs inside
\* both async with blocks, which the continue then leaves.
SleepNon200 ==
    /\ pc = "sleep_non200"
    /\ delay' = delay + SleepDelay
    /\ subOpen' = SubOpenAfterContinue
    /\ pc' = AfterNon200Sleep
    /\ Resume("sleep", {})
    /\ UNCHANGED nOpened
    /\ UNCHANGED connStatus
    /\ UNCHANGED prevPub
    /\ UNCHANGED <<unitVars, leaked, counters, published, exited, exitFrom, exitLog>>
    /\ UNCHANGED <<nDone, pubOrder>>

\* async for line in response.content yields a line, and the listener handles
\* it up to its first await (lines 121-133).
ReadLine ==
    /\ pc = "streaming"
    /\ \E l \in Lines :
         /\ unit' = UnitOf(l)
         /\ resp' = NoResp
         /\ spin_data' = None
         /\ pubFail' = NoFail
         /\ UNCHANGED <<leaked, nRecords, nPublish, published>>
         /\ IF l = <<>>
            THEN /\ trace' = <<>>
                 /\ ContinueStreaming({})
                 /\ UNCHANGED nSignals
            ELSE IF ~CanDecode(l)
            THEN /\ trace' = <<>>
                 /\ RaiseInUnit("UnicodeDecodeError", {})
                 /\ UNCHANGED nSignals
            ELSE IF ContainsMarker(Strip(Decode(l)))
            THEN /\ nSignals < MaxSignals
                 /\ nSignals' = nSignals + 1
                 /\ trace' = <<"fetch">>
                 /\ pc' = AfterSignal
                 /\ unitLog' = {"info:Received spin update signal"}
                 /\ unitExc' = "none"
                 /\ UNCHANGED sessionVars
            ELSE /\ trace' = <<>>
                 /\ ContinueStreaming({})
                 /\ UNCHANGED nSignals
         /\ Resume("read", IF trace' = <<"fetch">> THEN {"fetch"} ELSE {})
         /\ UNCHANGED nOpened
         /\ prevPub' = IF trace = <<"fetch", "publish">> /\ pubFail = NoFail
                       THEN spin_data ELSE prevPub
         /\ UNCHANGED connStatus
         /\ UNCHANGED <<nDone, pubOrder>>

\* The body of the stream ends: the async for and both async with blocks are
\* left without an exception.
StreamEnd ==
    /\ pc = "streaming"
    /\ subOpen' = FALSE
    /\ exited' = TRUE
    /\ delay' = 0
    /\ exitFrom' = "end"
    /\ exitLog' = "none"
    /\ pc' = "sleep"
    /\ Resume("read", {})
    /\ UNCHANGED nOpened
    /\ UNCHANGED connStatus
    /\ UNCHANGED prevPub
    /\ UNCHANGED <<unitVars, leaked, counters, published, nDone, pubOrder>>

\* Reading the next line raises (transport error, or the total timeout of 5 s
\* set on the stream request): outside the try of line 124.
ReadError ==
    /\ pc = "streaming"
    /\ \E e \in HttpExcs : ExitSession("read", e)
    /\ Resume("read", {})
    /\ UNCHANGED nOpened
    /\ UNCHANGED connStatus
    /\ UNCHANGED prevPub
    /\ UNCHANGED <<unitVars, leaked, counters, published, nDone, pubOrder>>

\* spin_data = await fetch_latest_spin(), then if spin_data (lines 133-139).
Fetch ==
    /\ pc = "fetching"
    /\ \E e \in HttpExcs \cup {"none"}, status \in Statuses, body \in Bodies :
         LET r == fetch_latest_spin(e, status, body) IN
         /\ resp' = IF e = "none" THEN [status |-> status, body |-> body] ELSE NoResp
         /\ spin_data' = r.ret
         /\ UNCHANGED <<unit, trace, pubFail, leaked, nSignals, nPublish, published>>
         /\ IF r.raised # "none"
            THEN /\ RaiseInUnit(r.raised, unitLog \cup r.logs)
                 /\ UNCHANGED nRecords
            ELSE /\ nRecords' = IF r.ret # None THEN nRecords + 1 ELSE nRecords
                 /\ IF ShouldPublish(r.ret)
                    THEN /\ pc' = "publishing"
                         /\ unitLog' = unitLog \cup r.logs
                         /\ unitExc' = "none"
                         /\ UNCHANGED sessionVars
                    ELSE ContinueStreaming(unitLog \cup r.logs
                              \cup {"warning:No valid spin data received after SSE update."})
    /\ Resume("fetch", {})
    /\ UNCHANGED nOpened
    /\ UNCHANGED connStatus
    /\ UNCHANGED prevPub
    /\ nDone' = IF pc' = "publishing" THEN nDone ELSE nDone + 1
    /\ UNCHANGED pubOrder

\* await send_to_rabbitmq(spin_data) (line 135): the call, to its return or
\* to the exception it raises.
Publish ==
    /\ pc = "publishing"
    /\ \E stage \in {PubStages[i] : i \in 1..Len(PubStages)} \cup {"none"},
          e \in BrokerExcs :
         LET r == send_to_rabbitmq(spin_data, stage, e) IN
         /\ leaked' = IF r.opened /\ ~r.closed THEN leaked + 1 ELSE leaked
         /\ nOpened' = IF r.opened THEN nOpened + 1 ELSE nOpened
         /\ published' = published \o r.delivered
         /\ pubFail' = IF stage = "none" THEN NoFail ELSE [stage |-> stage, exc |-> e]
         /\ trace' = Append(trace, "publish")
         /\ nPublish' = nPublish + 1
         /\ UNCHANGED <<unit, resp, spin_data, nSignals, nRecords>>
         /\ IF r.raised # "none"
            THEN RaiseInUnit(r.raised, unitLog \cup r.logs)
            ELSE /\ pc' = AfterPublish(r)
                 /\ unitLog' = unitLog \cup r.logs
                 /\ unitExc' = "none"
                 /\ UNCHANGED sessionVars
    /\ Resume("publish", {})
    /\ UNCHANGED connStatus
    /\ UNCHANGED prevPub
    /\ nDone' = IF pc' = "publishing" THEN nDone ELSE nDone + 1
    /\ pubOrder' = Append(pubOrder, nSignals)

\* await asyncio.sleep(5) at the bottom of the loop (line 152).
Sleep ==
    /\ pc = "sleep"
    /\ delay' = delay + SleepDelay
    /\ pc' = "connect"
    /\ Resume("sleep", {})
    /\ UNCHANGED nOpened
    /\ UNCHANGED connStatus
    /\ UNCHANGED prevPub
    /\ UNCHANGED <<unitVars, subOpen, leaked, counters, published, exited, exitFrom, exitLog>>
    /\ UNCHANGED <<nDone, pubOrder>>

Next ==
    \/ Connect
    \/ SleepNon200
    \/ ReadLine
    \/ StreamEnd
    \/ ReadError
    \/ Fetch
    \/ Publish
    \/ Sleep

Spec == Init /\ [][Next]_vars

\* The awaits that need no peer return: both sleeps end after 5 s, and the
\* stream request carries a total timeout of 5 s.
Fairness ==
    /\ WF_vars(Connect)
    /\ WF_vars(SleepNon200)
    /\ WF_vars(Sleep)

LiveSpec == Spec /\ Fairness

\* ------------------------------------------------------------------ claims
Count(seq, x) == Cardinality({i \in 1..Len(seq) : seq[i] = x})

\* The response of the fetch has no usable "spin-0": the key is missing, or
\* its value is null or empty.
LacksRecord(r) ==
    /\ r.status = HTTP_OK
    /\ r.body.kind = "object"
    /\ DictGet(r.body.members, "spin-0") \in {None, EmptyObj}

\* C1: for a line that contains the marker fetch_latest_spin is called exactly
\* once, before any call of send_to_rabbitmq for it; for any other line
\* (empty lines included) neither is called.
C1_SignalToFetchBinding ==
    /\ unit.signal => trace \in {<<"fetch">>, <<"fetch", "publish">>}
    /\ ~unit.signal => trace = <<>> /\ pc \notin {"fetching", "publishing"}
    /\ pc = "fetching" => trace = <<"fetch">>
    /\ pc = "publishing" => trace = <<"fetch">>

C1_Witness ==
    /\ unit.signal
    /\ trace = <<"fetch", "publish">>
    /\ pc = "streaming"

\* C2: every call of send_to_rabbitmq carries a non-null, non-empty record,
\* and a 200 response without a usable "spin-0" makes the fetch return None
\* and leads to no publish call.
C2_PublishOnlyRecord ==
    /\ (pc = "publishing" \/ Count(trace, "publish") > 0)
          => spin_data \notin {None, EmptyObj}
    /\ \A i \in 1..Len(published) :
          published[i].body \notin {JsonDumps(None), JsonDumps(EmptyObj)}
    /\ LacksRecord(resp)
          => /\ spin_data = None
             /\ pc # "publishing"
             /\ Count(trace, "publish") = 0

C2_Witness ==
    /\ LacksRecord(resp)
    /\ DictGet(resp.body.members, "spin-0") = EmptyObj
    /\ trace = <<"fetch">>
    /\ pc = "streaming"

\* C3: when the fetch gets a response whose status is not 200, it returns
\* None, a critical message is logged, and no publish call is made.
C3_Non200SuppressesPublish ==
    (resp # NoResp /\ resp.status # HTTP_OK)
       => /\ spin_data = None
          /\ "critical:Failed to fetch spin data" \in unitLog
          /\ pc # "publishing"
          /\ Count(trace, "publish") = 0

C3_Witness ==
    /\ resp # NoResp
    /\ resp.status = 204
    /\ resp.body = ObjectBody(<<<<"spin-0", SpinA>>>>)
    /\ pc = "streaming"

\* C4: a failed publish attempt, whatever the step of send_to_rabbitmq raised,
\* does not end the stream session.
C4_PublishFailureKeepsSession ==
    pubFail # NoFail => ~(exited /\ exitFrom = "unit")

\* C5: a line that cannot be decoded, or a JSON decode error while handling a
\* line, does not end the stream session: the line is skipped.
C5_MalformedUnitKeepsSession ==
    unitExc \in {"UnicodeDecodeError", "JSONDecodeError"}
       => ~(exited /\ exitFrom = "unit")

\* C6: between the end of a session or of a failed connection attempt and the
\* next connection attempt exactly one delay of 5 elapses, whatever ended it.
C6_ExactlyOneDelay ==
    /\ (pc = "connect" /\ exited) => delay = SleepDelay
    /\ pc \in {"sleep", "sleep_non200"} => (exited /\ delay = 0)
    /\ delay \in {0, SleepDelay}

C6_Witness ==
    /\ pc = "connect"
    /\ exited
    /\ exitFrom = "status"
    /\ delay = SleepDelay

\* C7: after every end of a session or of a connection attempt a new
\* connection attempt is eventually made, and the listener is always either
\* in a session or on its way to a new connection attempt.
C7_EventuallyReconnects ==
    /\ exited ~> (pc = "connect")
    /\ [](pc \in {"streaming", "fetching", "publishing"} \/ <>(pc = "connect"))

C7_Witness ==
    /\ pc = "connect"
    /\ exited
    /\ exitFrom = "unit"
    /\ exitLog = "critical:Unexpected error in SSE listener"

\* C8: no failure makes listen_to_sse return or raise to main.
C8_NeverTerminates ==
    /\ pc \in {"connect", "sleep_non200", "streaming", "fetching", "publishing", "sleep"}
    /\ exitLog # "propagate"

C8_Witness ==
    /\ pc = "sleep"
    /\ exitLog = "error:Unexpected exception"
    /\ unitExc = "AttributeError"

\* C9: every call of send_to_rabbitmq that opened a broker connection has
\* closed it when the call ends, so no connection stays open between calls.
C9_NoBrokerConnectionLeftOpen == leaked = 0

\* C10: at most one publish attempt is made per signal; a failed attempt is
\* never repeated, so the publish attempts never outnumber the fetches that
\* returned a record.
C10_AtMostOneAttempt ==
    /\ Count(trace, "publish") <= 1
    /\ nPublish <= nRecords
    /\ nRecords <= nSignals
    /\ Len(published) <= nPublish

C10_Witness ==
    /\ pubFail.stage = "connect_robust"
    /\ pubFail.exc = "AMQPConnectionError"
    /\ pc = "streaming"
    /\ nPublish = 1
    /\ published = <<>>
    /\ "critical:Error publishing to RabbitMQ" \in unitLog

\* The strings that occur in the records, and the JSON text of a string.
JsonStrings == {"artist", "song", "A", "B", "C", "D"}
Quote(str) == "\"" \o str \o "\""
Unquote(tok) == CHOOSE str \in JsonStrings : Quote(str) = tok

RECURSIVE ParseMembers(_)
\* The members of an object, read back from the tokens between its braces.
ParseMembers(toks) ==
    IF toks = <<>> THEN <<>>
    ELSE <<<<Unquote(toks[1]), Unquote(toks[3])>>>>
         \o ParseMembers(IF Len(toks) > 4 THEN SubSeq(toks, 5, Len(toks)) ELSE <<>>)

\* json.loads of a message body.
ParseJson(toks) ==
    IF toks = <<"null">> THEN None
    ELSE Obj(ParseMembers(SubSeq(toks, 2, Len(toks) - 1)))

\* The exchange accepted the message of the line being handled.
UnitDelivered ==
    /\ trace = <<"fetch", "publish">>
    /\ pubFail.stage \in {"none", "close"}

\* C11: the body of every message handed to the broker is the JSON text of
\* exactly the record the fetch returned for the same signal, and the message
\* goes to the configured exchange with the configured routing key.
C11_PayloadFidelity ==
    /\ \A i \in 1..Len(published) :
          /\ ParseJson(published[i].body) \in {SpinA, SpinB}
          /\ published[i].exchange = "RABBITMQ_EXCHANGE"
          /\ published[i].routing_key = "RABBITMQ_ROUTING_KEY"
    /\ UnitDelivered
          => /\ published # <<>>
             /\ ParseJson(published[Len(published)].body) = spin_data
             /\ spin_data = DictGet(resp.body.members, "spin-0")

C11_Witness ==
    /\ UnitDelivered
    /\ Len(published) = 2
    /\ ParseJson(published[1].body) = SpinA
    /\ ParseJson(published[2].body) = SpinB
    /\ spin_data = SpinB

\* C12: a failure of the fetch (network failure or timeout of the request, or
\* a response body that cannot be decoded) does not end the stream session,
\* and no publish is made for that signal.
C12_FetchFailureKeepsSession ==
    (/\ unit.signal
     /\ trace = <<"fetch">>
     /\ unitExc \in {"ClientError", "ServerTimeoutError", "TimeoutError", "JSONDecodeError"})
       => /\ ~(exited /\ exitFrom = "unit")
          /\ pc # "publishing"

\* The fetch-then-publish sequence of the line being handled has completed
\* or failed.
UnitFinished ==
    \/ trace = <<"fetch", "publish">> /\ pc # "publishing"
    \/ trace = <<"fetch">> /\ unitExc # "none"
    \/ trace = <<"fetch">> /\ resp # NoResp /\ spin_data = None

\* C13: at most one awaited operation (connect, read, fetch, publish, sleep)
\* is in flight; a fetch and a publish never overlap, and the next line is
\* not read before the handling of the current signal has completed or failed.
C13_OneActivityInFlight ==
    /\ Cardinality(inflight) <= 1
    /\ ~({"fetch", "publish"} \subseteq inflight)
    /\ "read" \in inflight => inflight \cap {"fetch", "publish"} = {}
    /\ (pc = "streaming" /\ unit.signal) => UnitFinished

C13_Witness ==
    /\ pc = "publishing"
    /\ inflight = {"publish"}
    /\ nDone = 1
    /\ pubOrder = <<1>>

StrictlyIncreasing(seq) == \A i, j \in 1..Len(seq) : i < j => seq[i] < seq[j]

\* C14: signals are handled in arrival order: the fetch and the publish of a
\* signal have ended before the fetch of the next one starts, and the publish
\* calls follow the arrival order of their signals.
C14_ArrivalOrder ==
    /\ nDone <= nSignals
    /\ nSignals <= nDone + 1
    /\ nSignals = nDone + 1 => pc \in {"fetching", "publishing"}
    /\ StrictlyIncreasing(pubOrder)
    /\ \A i \in 1..Len(pubOrder) : pubOrder[i] \in 1..nSignals
    /\ Len(pubOrder) = nPublish

C14_Witness ==
    /\ pubOrder = <<1, 2>>
    /\ nDone = 2
    /\ Len(published) = 2
    /\ pc = "streaming"

\* C15: the stream session and response are never open while the listener
\* sleeps before reconnecting: they are released before the sleep begins.
C15_SubscriptionReleasedBeforeSleep ==
    pc \in {"sleep", "sleep_non200"} => ~subOpen

\* C16: a stream response whose status is not 200 is logged as an error and
\* the listener goes back to reconnecting without streaming: it reads no line
\* and calls neither the fetch nor the publish for that connection.
C16_Non200StreamStatus ==
    connStatus \notin {0, HTTP_OK}
       => /\ pc \in {"sleep_non200", "connect"}
          /\ exited /\ exitFrom = "status"
          /\ exitLog = "error:Failed to connect to SSE stream"
          /\ unit = NoUnit
          /\ trace = <<>>
          /\ resp = NoResp
          /\ inflight \cap {"read", "fetch", "publish"} = {}

C16_Witness ==
    /\ connStatus = 204
    /\ pc = "connect"
    /\ nSignals = 1
    /\ unit = NoUnit

\* C17: at most one stream subscription is open at a time: a connection
\* attempt starts only when the subscription of the iteration before has been
\* released and nothing of that iteration is still in flight; and a message
\* only ever goes over a broker connection opened by the same publish call.
C17_FreshResourcesPerIteration ==
    /\ pc = "connect" => (~subOpen /\ inflight = {"connect"})
    /\ subOpen => pc \in {"streaming", "fetching", "publishing", "sleep_non200"}
    /\ Len(published) <= nOpened
    /\ nOpened <= nPublish

C17_Witness ==
    /\ pc = "connect"
    /\ exitFrom = "status"
    /\ delay = SleepDelay
    /\ ~subOpen
    /\ leaked = 1
    /\ nOpened = 1

\* C18: there is no deduplication.  When a marker line has been handled, the
\* fetch for it returned the very record that was already published for an
\* earlier line of the same session, and nothing raised, then the record was
\* published again: the latest message on the exchange and an earlier one
\* have the same body, that of the record.
C18_NoDeduplication ==
    (/\ pc = "streaming"
     /\ unit.signal
     /\ unitExc = "none"
     /\ prevPub # None
     /\ spin_data = prevPub)
    => /\ trace = <<"fetch", "publish">>
       /\ pubFail = NoFail
          => /\ Len(published) >= 2
             /\ published[Len(published)].body = JsonDumps(spin_data)
             /\ \E i \in 1..(Len(published) - 1) :
                  published[i].body = published[Len(published)].body

C18_Witness ==
    /\ pc = "streaming"
    /\ unit.signal
    /\ nSignals = 2
    /\ prevPub = SpinA
    /\ spin_data = SpinA
    /\ trace = <<"fetch", "publish">>
    /\ pubFail = NoFail
    /\ Len(published) = 2
    /\ published[1].body = published[2].body

\* C19: there is no catch-up after a reconnect.  A fetch starts only in a step
\* that reads a marker line from the open stream; a step that is not handling
\* a marker line of the open stream calls nothing and publishes nothing, so
\* sleeping, connecting and entering the streaming state fetch and publish
\* nothing.
C19_NoCatchUp ==
    [][/\ pc' = "fetching"
          => (pc = "streaming" /\ subOpen /\ nSignals' = nSignals + 1
              /\ unit'.signal)
       /\ pc' = "publishing" => (pc = "fetching" /\ subOpen /\ unit.signal)
       /\ pc \in {"connect", "sleep", "sleep_non200"}
          => (/\ pc' \notin {"fetching", "publishing"}
              /\ trace' \in {<<>>, trace}
              /\ resp' \in {NoResp, resp}
              /\ UNCHANGED <<nSignals, nRecords, nPublish, published>>)
      ]_vars

C19_Witness ==
    /\ pc = "streaming"
    /\ unit = NoUnit
    /\ subOpen
    /\ nSignals = 1
    /\ nPublish = 1
    /\ trace = <<>>
    /\ resp = NoResp
    /\ inflight = {"read"}
====
